---- MODULE Spec2Model ----
(***************************************************************************)
(* The SSH configuration engine of rp (src/rp/core/ssh_manager.py).        *)
(*                                                                         *)
(* A Python str is a sequence of one-character strings, the document file  *)
(* is the flat character sequence on disk, and a "lines" list is a         *)
(* sequence of str.  List positions are 0-based as in the source:          *)
(* lines[i] of the source is lines[i + 1] here, and the slice lines[a:b]   *)
(* is SubSeq(lines, a + 1, b).                                             *)
(***************************************************************************)
EXTENDS Integers, Sequences, FiniteSets, TLC

(***************************************************************************)
(* Bounds of the model.                                                    *)
(***************************************************************************)
\* the initial document is made of at most MaxLines lines of LinePool
MaxLines == 3

(***************************************************************************)
(* str primitives used by the engine.                                      *)
(***************************************************************************)
NL == "\n"

\* the whitespace characters of the model's alphabet (str.isspace, regex \s)
IsSpace(c) == c \in {" ", "\t", "\n"}

RECURSIVE SkipSpace(_, _)
\* the first position >= i of s that holds no whitespace (Len(s) + 1 if none)
SkipSpace(s, i) ==
    IF i <= Len(s) /\ IsSpace(s[i]) THEN SkipSpace(s, i + 1) ELSE i

RECURSIVE SkipSpaceBack(_, _)
\* the last position <= i of s that holds no whitespace (0 if none)
SkipSpaceBack(s, i) ==
    IF i >= 1 /\ IsSpace(s[i]) THEN SkipSpaceBack(s, i - 1) ELSE i

\* str.lstrip()
lstrip(s) == SubSeq(s, SkipSpace(s, 1), Len(s))

\* str.strip()
strip(s) ==
    LET a == SkipSpace(s, 1)
        b == SkipSpaceBack(s, Len(s))
    IN  IF a > b THEN <<>> ELSE SubSeq(s, a, b)

\* str.startswith(prefix)
startswith(s, prefix) ==
    Len(s) >= Len(prefix) /\ SubSeq(s, 1, Len(prefix)) = prefix

RECURSIVE SkipWord(_, _)
\* the first position >= i of s that holds whitespace (Len(s) + 1 if none)
SkipWord(s, i) ==
    IF i <= Len(s) /\ ~IsSpace(s[i]) THEN SkipWord(s, i + 1) ELSE i

RECURSIVE SplitFrom(_, _, _)
SplitFrom(s, i, words) ==
    LET a == SkipSpace(s, i)
        b == SkipWord(s, a)
    IN  IF a > Len(s) THEN words
        ELSE SplitFrom(s, b, Append(words, SubSeq(s, a, b - 1)))

\* str.split(): the maximal runs of non-whitespace characters, in order
split(s) == SplitFrom(s, 1, <<>>)

\* x in list
Contains(list, x) == \E k \in 1..Len(list) : list[k] = x

(***************************************************************************)
(* The file: f.readlines() and f.writelines(lines).                        *)
(***************************************************************************)
RECURSIVE LineEnd(_, _)
\* the position of the first newline of data at or after i (Len(data) if none)
LineEnd(data, i) ==
    IF i >= Len(data) \/ data[i] = NL THEN i ELSE LineEnd(data, i + 1)

RECURSIVE ReadFrom(_, _, _)
ReadFrom(data, i, lines) ==
    IF i > Len(data) THEN lines
    ELSE LET e == LineEnd(data, i)
         IN  ReadFrom(data, e + 1, Append(lines, SubSeq(data, i, e)))

\* f.readlines(): each line keeps its newline; the last line may have none
readlines(data) == ReadFrom(data, 1, <<>>)

RECURSIVE Join(_)
\* f.writelines(lines) on a truncated file: the strings one after the other
Join(lines) ==
    IF lines = <<>> THEN <<>> ELSE Head(lines) \o Join(Tail(lines))

\* the document file when it does not exist
NoFile == [exists |-> FALSE, data |-> <<>>]

\* SSHManager._load_ssh_config_lines
_load_ssh_config_lines(f) ==
    IF f.exists THEN readlines(f.data) ELSE <<>>

\* SSHManager._write_ssh_config_lines: the file the write leaves
_write_ssh_config_lines(lines) ==
    [exists |-> TRUE, data |-> Join(lines)]

(***************************************************************************)
(* The parser.                                                             *)
(***************************************************************************)
HostKeyword == <<"H", "o", "s", "t">>

\* MARKER_PREFIX (imported from rp.config): the literal "# rp:managed" that
\* to_ssh_block writes after the indentation of the marker line
MARKER_PREFIX ==
    <<"#", " ", "r", "p", ":", "m", "a", "n", "a", "g", "e", "d">>

\* re.match(r"^\s*Host\s+", line): the position of the first character of
\* \s+ when the pattern matches, 0 when it does not
HostPrefix(line) ==
    LET k == SkipSpace(line, 1)
    IN  IF /\ k + 4 <= Len(line)
           /\ SubSeq(line, k, k + 3) = HostKeyword
           /\ IsSpace(line[k + 4])
        THEN k + 4 ELSE 0

\* re.match(r"^\s*Host\s+", lines[i]) of the inner loop
IsHostStart(line) == HostPrefix(line) # 0

\* re.match(r"^\s*Host\s+(.+)$", line): \s+ takes at least one character
\* from position p, (.+) at least one character that is no newline, and $
\* holds at the end of the line or just before its final newline.  \s+ is
\* greedy, and gives characters back only when (.+) would be left empty.
HostMatch(line) ==
    LET p == HostPrefix(line)
        e == IF line[Len(line)] = NL THEN Len(line) - 1 ELSE Len(line)
        r == SkipSpace(line, p)
        g == IF r <= e THEN SubSeq(line, r, e) ELSE SubSeq(line, e, e)
    IN  IF p # 0 /\ p + 1 <= e /\ \A k \in 1..Len(g) : g[k] # NL
        THEN [matched |-> TRUE, group1 |-> g]
        ELSE [matched |-> FALSE, group1 |-> <<>>]

RECURSIVE FindEnd(_, _)
\* while i < len(lines) and not re.match(r"^\s*Host\s+", lines[i]): i += 1
FindEnd(lines, i) ==
    IF i < Len(lines) /\ ~IsHostStart(lines[i + 1])
    THEN FindEnd(lines, i + 1) ELSE i

RECURSIVE FindMarker_IgnoresEnd(_, _, _)
\* looks for the marker up to the end of the document
FindMarker_IgnoresEnd(lines, j, end) ==
    IF j >= Len(lines) THEN -1
    ELSE IF startswith(lstrip(lines[j + 1]), MARKER_PREFIX) THEN j
    ELSE FindMarker_IgnoresEnd(lines, j + 1, end)

RECURSIVE FindMarker(_, _, _)
\* for j in range(start + 1, end): the first j whose line, lstripped,
\* starts with MARKER_PREFIX; -1 when there is none
FindMarker(lines, j, end) ==
    IF j >= end THEN -1
    ELSE IF startswith(lstrip(lines[j + 1]), MARKER_PREFIX) THEN j
    ELSE FindMarker(lines, j + 1, end)

RECURSIVE ParseFrom(_, _, _)
\* the outer while loop of _parse_ssh_blocks, from position i
ParseFrom(lines, i, blocks) ==
    IF i >= Len(lines) THEN blocks
    ELSE LET m == HostMatch(lines[i + 1])
         IN  IF m.matched
             THEN LET start == i
                      end == FindEnd(lines, i + 1)
                      marker_index == FindMarker(lines, start + 1, end)
                  IN  ParseFrom(lines, end, Append(blocks,
                          [start |-> start,
                           end |-> end,
                           hosts |-> split(strip(m.group1)),
                           managed |-> marker_index # -1,
                           marker_index |-> marker_index]))
             ELSE ParseFrom(lines, i + 1, blocks)

\* gives the blocks last first
_parse_ssh_blocks_Reversed(lines) ==
    LET blocks == ParseFrom(lines, 0, <<>>)
    IN  [k \in 1..Len(blocks) |-> blocks[Len(blocks) + 1 - k]]

\* SSHManager._parse_ssh_blocks
_parse_ssh_blocks(lines) == ParseFrom(lines, 0, <<>>)

(***************************************************************************)
(* SSHConfig (src/rp/core/models.py) and its canonical block.              *)
(***************************************************************************)
Digit(d) ==
    CASE d = 0 -> "0" [] d = 1 -> "1" [] d = 2 -> "2" [] d = 3 -> "3"
      [] d = 4 -> "4" [] d = 5 -> "5" [] d = 6 -> "6" [] d = 7 -> "7"
      [] d = 8 -> "8" [] d = 9 -> "9"

RECURSIVE Decimal(_)
\* f"{self.port}": the decimal digits of a positive int
Decimal(n) ==
    IF n < 10 THEN <<Digit(n)>> ELSE Append(Decimal(n \div 10), Digit(n % 10))

\* an Optional[str]: None is <<>>, the string s is <<s>>
None == <<>>
Some(s) == <<s>>

\* `if self.identity_file:`: neither None nor the empty string
Truthy(opt) == opt # None /\ opt[1] # <<>>

Indent == <<" ", " ", " ", " ">>

\* SSHConfig.to_ssh_block(updated_timestamp)
to_ssh_block(self, updated_timestamp) ==
    <<  <<"H", "o", "s", "t", " ">> \o self.alias \o <<NL>>,
        Indent \o MARKER_PREFIX
            \o <<" ", "a", "l", "i", "a", "s", "=">> \o self.alias
            \o <<" ", "p", "o", "d", "_", "i", "d", "=">> \o self.pod_id
            \o <<" ", "u", "p", "d", "a", "t", "e", "d", "=">>
            \o updated_timestamp \o <<NL>>,
        Indent \o <<"H", "o", "s", "t", "N", "a", "m", "e", " ">>
            \o self.hostname \o <<NL>>,
        Indent \o <<"U", "s", "e", "r", " ">> \o self.user \o <<NL>>,
        Indent \o <<"P", "o", "r", "t", " ">> \o Decimal(self.port) \o <<NL>>
    >>
    \o (IF Truthy(self.identity_file)
        THEN << Indent \o <<"I", "d", "e", "n", "t", "i", "t", "i", "e", "s",
                            "O", "n", "l", "y", " ", "y", "e", "s", NL>>,
                Indent \o <<"I", "d", "e", "n", "t", "i", "t", "y",
                            "F", "i", "l", "e", " ">>
                    \o self.identity_file[1] \o <<NL>> >>
        ELSE <<>>)
    \o << Indent \o <<"F", "o", "r", "w", "a", "r", "d", "A", "g", "e", "n",
                      "t", " ", "y", "e", "s", NL>> >>

(***************************************************************************)
(* The mutator: the computation of each operation on the loaded lines.     *)
(***************************************************************************)
RECURSIVE FirstBlockFor_ManagedOnly(_, _, _)
\* FirstBlockFor, were the search to skip the blocks that are not managed
FirstBlockFor_ManagedOnly(blocks, alias, k) ==
    IF k > Len(blocks) THEN 0
    ELSE IF blocks[k].managed /\ Contains(blocks[k].hosts, alias) THEN k
    ELSE FirstBlockFor_ManagedOnly(blocks, alias, k + 1)

RECURSIVE FirstBlockFor(_, _, _)
\* for block in blocks: if alias in block["hosts"]: target_block = block;
\* break.  The position in blocks of the target, 0 when target_block is None
FirstBlockFor(blocks, alias, k) ==
    IF k > Len(blocks) THEN 0
    ELSE IF Contains(blocks[k].hosts, alias) THEN k
    ELSE FirstBlockFor(blocks, alias, k + 1)

\* update_lines, were the separator added before every appended block
update_lines_AlwaysSeparator(lines, ssh_config, timestamp) ==
    LET blocks == _parse_ssh_blocks(lines)
        new_block_lines == to_ssh_block(ssh_config, timestamp)
        t == FirstBlockFor(blocks, ssh_config.alias, 1)
    IN  IF t = 0
        THEN Append(lines, <<NL>>) \o new_block_lines
        ELSE SubSeq(lines, 1, blocks[t].start)
                 \o new_block_lines
                 \o SubSeq(lines, blocks[t].end + 1, Len(lines))

\* update_lines, were the block appended even where a block lists the alias
update_lines_NeverReplaces(lines, ssh_config, timestamp) ==
    (IF lines # <<>> /\ strip(lines[Len(lines)]) # <<>>
     THEN Append(lines, <<NL>>)
     ELSE lines) \o to_ssh_block(ssh_config, timestamp)

\* update_lines, were the opening line of the replaced block kept
update_lines_KeepsOpeningLine(lines, ssh_config, timestamp) ==
    LET blocks == _parse_ssh_blocks(lines)
        new_block_lines == to_ssh_block(ssh_config, timestamp)
        t == FirstBlockFor(blocks, ssh_config.alias, 1)
    IN  IF t = 0
        THEN (IF lines # <<>> /\ strip(lines[Len(lines)]) # <<>>
              THEN Append(lines, <<NL>>)
              ELSE lines) \o new_block_lines
        ELSE SubSeq(lines, 1, blocks[t].start + 1)
                 \o Tail(new_block_lines)
                 \o SubSeq(lines, blocks[t].end + 1, Len(lines))

\* update_host_config, lines 86-111: the lines handed to the write
update_lines(lines, ssh_config, timestamp) ==
    LET blocks == _parse_ssh_blocks(lines)
        new_block_lines == to_ssh_block(ssh_config, timestamp)
        t == FirstBlockFor(blocks, ssh_config.alias, 1)
    IN  IF t = 0
        THEN (IF lines # <<>> /\ strip(lines[Len(lines)]) # <<>>
              THEN Append(lines, <<NL>>)
              ELSE lines) \o new_block_lines
        ELSE SubSeq(lines, 1, blocks[t].start)
                 \o new_block_lines
                 \o SubSeq(lines, blocks[t].end + 1, Len(lines))

\* writes the file only where it exists already
update_host_config_NeverCreates(f, ssh_config, timestamp) ==
    IF f.exists
    THEN _write_ssh_config_lines(
             update_lines(_load_ssh_config_lines(f), ssh_config, timestamp))
    ELSE f

\* SSHManager.update_host_config: the file it leaves
update_host_config(f, ssh_config, timestamp) ==
    _write_ssh_config_lines(
        update_lines(_load_ssh_config_lines(f), ssh_config, timestamp))

RECURSIVE CutRanges(_, _, _, _)
\* for start, end in blocks_to_remove: new_lines.extend(
\* lines[current_pos:start]); current_pos = end; and after the loop
\* new_lines.extend(lines[current_pos:])
CutRanges(lines, blocks_to_remove, current_pos, new_lines) ==
    IF blocks_to_remove = <<>>
    THEN new_lines \o SubSeq(lines, current_pos + 1, Len(lines))
    ELSE CutRanges(lines, Tail(blocks_to_remove),
                   Head(blocks_to_remove).end,
                   new_lines \o SubSeq(lines, current_pos + 1,
                                       Head(blocks_to_remove).start))

\* RemoveSelected, were the test of block["managed"] left out
RemoveSelected_AnyBlock(block, alias) == Contains(block.hosts, alias)

\* remove_host_config, lines 124-126: the blocks it selects
RemoveSelected(block, alias) ==
    block.managed /\ Contains(block.hosts, alias)

\* remove_host_config, were the loop to stop at the first selected block
remove_host_config_FirstOnly(f, alias) ==
    LET lines == _load_ssh_config_lines(f)
        blocks == _parse_ssh_blocks(lines)
        selected ==
            SelectSeq(blocks, LAMBDA block : RemoveSelected(block, alias))
        blocks_to_remove ==
            IF selected = <<>> THEN <<>> ELSE <<Head(selected)>>
    IN  IF lines = <<>> THEN [file |-> f, ret |-> FALSE]
        ELSE IF blocks_to_remove = <<>> THEN [file |-> f, ret |-> FALSE]
        ELSE [file |-> _write_ssh_config_lines(
                          CutRanges(lines, blocks_to_remove, 0, <<>>)),
              ret |-> TRUE]

\* remove_host_config, were `if not blocks_to_remove: return False` left out
remove_host_config_NoEarlyReturn(f, alias) ==
    LET lines == _load_ssh_config_lines(f)
        blocks == _parse_ssh_blocks(lines)
        blocks_to_remove ==
            SelectSeq(blocks, LAMBDA block : RemoveSelected(block, alias))
    IN  IF lines = <<>> THEN [file |-> f, ret |-> FALSE]
        ELSE [file |-> _write_ssh_config_lines(
                          CutRanges(lines, blocks_to_remove, 0, <<>>)),
              ret |-> TRUE]

\* SSHManager.remove_host_config: the file it leaves and what it returns
remove_host_config(f, alias) ==
    LET lines == _load_ssh_config_lines(f)
        blocks == _parse_ssh_blocks(lines)
        blocks_to_remove ==
            SelectSeq(blocks, LAMBDA block : RemoveSelected(block, alias))
    IN  IF lines = <<>> THEN [file |-> f, ret |-> FALSE]
        ELSE IF blocks_to_remove = <<>> THEN [file |-> f, ret |-> FALSE]
        ELSE [file |-> _write_ssh_config_lines(
                          CutRanges(lines, blocks_to_remove, 0, <<>>)),
              ret |-> TRUE]

\* PruneSelected, were a block dropped as soon as one of its hosts is invalid
PruneSelected_AnyInvalid(block, valid_aliases) ==
    /\ block.managed
    /\ \E k \in 1..Len(block.hosts) : block.hosts[k] \notin valid_aliases

\* prune_managed_blocks, lines 153-159: the blocks it selects
PruneSelected(block, valid_aliases) ==
    /\ block.managed
    /\ ~ \E k \in 1..Len(block.hosts) : block.hosts[k] \in valid_aliases

\* prune_managed_blocks, were it to return the number of managed blocks
prune_managed_blocks_CountsManaged(f, valid_aliases) ==
    LET lines == _load_ssh_config_lines(f)
        blocks == _parse_ssh_blocks(lines)
        blocks_to_remove ==
            SelectSeq(blocks,
                      LAMBDA block : PruneSelected(block, valid_aliases))
    IN  IF lines = <<>> THEN [file |-> f, ret |-> 0]
        ELSE IF blocks_to_remove = <<>> THEN [file |-> f, ret |-> 0]
        ELSE [file |-> _write_ssh_config_lines(
                          CutRanges(lines, blocks_to_remove, 0, <<>>)),
              ret |-> Len(SelectSeq(blocks, LAMBDA block : block.managed))]

\* SSHManager.prune_managed_blocks: the file it leaves and what it returns
prune_managed_blocks(f, valid_aliases) ==
    LET lines == _load_ssh_config_lines(f)
        blocks == _parse_ssh_blocks(lines)
        blocks_to_remove ==
            SelectSeq(blocks,
                      LAMBDA block : PruneSelected(block, valid_aliases))
    IN  IF lines = <<>> THEN [file |-> f, ret |-> 0]
        ELSE IF blocks_to_remove = <<>> THEN [file |-> f, ret |-> 0]
        ELSE [file |-> _write_ssh_config_lines(
                          CutRanges(lines, blocks_to_remove, 0, <<>>)),
              ret |-> Len(blocks_to_remove)]

(***************************************************************************)
(* The readers: get_host_config and list_managed_hosts.                    *)
(***************************************************************************)
\* line.split(prefix, 1)[1] of a line that starts with prefix
AfterPrefix(line, prefix) == SubSeq(line, Len(prefix) + 1, Len(line))

KeyHostName == <<"H", "o", "s", "t", "N", "a", "m", "e", " ">>
KeyPort == <<"P", "o", "r", "t", " ">>
KeyUser == <<"U", "s", "e", "r", " ">>
KeyIdentityFile ==
    <<"I", "d", "e", "n", "t", "i", "t", "y", "F", "i", "l", "e", " ">>
KeyPodId == <<"p", "o", "d", "_", "i", "d", "=">>

IsDigit(c) == c \in {"0", "1", "2", "3", "4", "5", "6", "7", "8", "9"}

DigitValue(c) ==
    CASE c = "0" -> 0 [] c = "1" -> 1 [] c = "2" -> 2 [] c = "3" -> 3
      [] c = "4" -> 4 [] c = "5" -> 5 [] c = "6" -> 6 [] c = "7" -> 7
      [] c = "8" -> 8 [] c = "9" -> 9

RECURSIVE DigitsValue(_, _, _)
DigitsValue(s, i, acc) ==
    IF i > Len(s) THEN acc
    ELSE DigitsValue(s, i + 1, acc * 10 + DigitValue(s[i]))

\* int(s) under contextlib.suppress(ValueError): an optional sign and at
\* least one decimal digit, whitespace around them ignored; ok is FALSE
\* where int raises ValueError
int(s) ==
    LET t == strip(s)
        signed == t # <<>> /\ t[1] \in {"+", "-"}
        d == IF signed THEN Tail(t) ELSE t
    IN  IF d # <<>> /\ \A k \in 1..Len(d) : IsDigit(d[k])
        THEN [ok |-> TRUE,
              value |-> IF signed /\ t[1] = "-"
                        THEN 0 - DigitsValue(d, 1, 0)
                        ELSE DigitsValue(d, 1, 0)]
        ELSE [ok |-> FALSE, value |-> 0]

RECURSIVE Find(_, _, _)
\* the first position >= i at which sub occurs in s, 0 when there is none
Find(s, sub, i) ==
    IF i + Len(sub) - 1 > Len(s) THEN 0
    ELSE IF SubSeq(s, i, i + Len(sub) - 1) = sub THEN i
    ELSE Find(s, sub, i + 1)

RECURSIVE SearchPodId(_, _)
\* re.search(r"pod_id=([^\s]+)", line): group 1 of the first occurrence of
\* pod_id= that a non-whitespace character follows; None without a match
SearchPodId(line, i) ==
    LET p == Find(line, KeyPodId, i)
        a == p + Len(KeyPodId)
    IN  IF p = 0 THEN None
        ELSE IF a <= Len(line) /\ ~IsSpace(line[a])
        THEN Some(SubSeq(line, a, SkipWord(line, a) - 1))
        ELSE SearchPodId(line, p + 1)

\* the local variables of get_host_config before the scan of a block
NoFields == [hostname |-> None, port |-> None,
             user |-> Some(<<"r", "o", "o", "t">>),
             identity_file |-> None, pod_id |-> None]

\* the if/elif chain of get_host_config (lines 192-207) on one line
ReadLine(fields, raw) ==
    LET line == strip(raw)
    IN  IF startswith(line, KeyHostName)
        THEN [fields EXCEPT
                 !.hostname = Some(strip(AfterPrefix(line, KeyHostName)))]
        ELSE IF startswith(line, KeyPort)
        THEN LET n == int(strip(AfterPrefix(line, KeyPort)))
             IN  IF n.ok THEN [fields EXCEPT !.port = Some(n.value)]
                 ELSE fields
        ELSE IF startswith(line, KeyUser)
        THEN [fields EXCEPT !.user = Some(strip(AfterPrefix(line, KeyUser)))]
        ELSE IF startswith(line, KeyIdentityFile)
        THEN [fields EXCEPT !.identity_file =
                 Some(strip(AfterPrefix(line, KeyIdentityFile)))]
        ELSE IF /\ startswith(line, MARKER_PREFIX)
                /\ Find(line, <<" ">> \o KeyPodId, 1) # 0
        THEN LET m == SearchPodId(line, 1)
             IN  IF m # None THEN [fields EXCEPT !.pod_id = m] ELSE fields
        ELSE fields

\* a Port line whose value int() rejects
MalformedPort(raw) ==
    /\ startswith(strip(raw), KeyPort)
    /\ ~int(strip(AfterPrefix(strip(raw), KeyPort))).ok

RECURSIVE ReadBlock_StopsAtMalformedPort(_, _, _, _)
\* gives up the block at a malformed Port line
ReadBlock_StopsAtMalformedPort(lines, i, end, fields) ==
    IF i >= end \/ MalformedPort(lines[i + 1]) THEN fields
    ELSE ReadBlock_StopsAtMalformedPort(lines, i + 1, end,
                                        ReadLine(fields, lines[i + 1]))

RECURSIVE ReadBlock(_, _, _, _)
\* for i in range(block["start"] + 1, block["end"])
ReadBlock(lines, i, end, fields) ==
    IF i >= end THEN fields
    ELSE ReadBlock(lines, i + 1, end, ReadLine(fields, lines[i + 1]))

\* `if hostname and port and pod_id`
Configured(fields) ==
    /\ Truthy(fields.hostname)
    /\ fields.port # None /\ fields.port[1] # 0
    /\ Truthy(fields.pod_id)

\* SSHConfig(...): pydantic accepts a port with ge=1 and le=65535
ValidPort(port) == port >= 1 /\ port <= 65535

\* reads every managed block, whatever names it lists
GetSelected_AnyManaged(block, alias) == block.managed

\* get_host_config, line 183: the blocks it reads
GetSelected(block, alias) ==
    Contains(block.hosts, alias) /\ block.managed

RECURSIVE GetFrom(_, _, _, _)
\* the `for block in blocks` loop of get_host_config from blocks[k]
GetFrom(lines, blocks, alias, k) ==
    IF k > Len(blocks) THEN [found |-> None, err |-> "none"]
    ELSE IF GetSelected(blocks[k], alias)
    THEN LET fields == ReadBlock(lines, blocks[k].start + 1,
                                 blocks[k].end, NoFields)
         IN  IF Configured(fields)
             THEN IF ValidPort(fields.port[1])
                  THEN [found |-> Some([alias |-> alias,
                                        pod_id |-> fields.pod_id[1],
                                        hostname |-> fields.hostname[1],
                                        port |-> fields.port[1],
                                        user |-> fields.user[1],
                                        identity_file |->
                                            fields.identity_file]),
                        err |-> "none"]
                  ELSE [found |-> None, err |-> "ValidationError"]
             ELSE GetFrom(lines, blocks, alias, k + 1)
    ELSE GetFrom(lines, blocks, alias, k + 1)

\* SSHManager.get_host_config: what it returns or raises
get_host_config(f, alias) ==
    LET lines == _load_ssh_config_lines(f)
    IN  GetFrom(lines, _parse_ssh_blocks(lines), alias, 1)

\* the characters of the model in the order of their code points
CodeOrder ==
    << "\t", "\n", " ", "#", "+", "-",
       "0", "1", "2", "3", "4", "5", "6", "7", "8", "9", ":", "=",
       "F", "H", "I", "N", "O", "P", "U", "_",
       "a", "b", "c", "d", "e", "f", "g", "h", "i", "k", "l", "m", "n", "o",
       "p", "q", "r", "s", "t", "u", "w", "x", "y" >>

Ord(c) == CHOOSE k \in 1..Len(CodeOrder) : CodeOrder[k] = c

RECURSIVE StrLess(_, _)
\* s < t for two str: the first differing character decides, a proper
\* prefix is smaller
StrLess(s, t) ==
    IF t = <<>> THEN FALSE
    ELSE IF s = <<>> THEN TRUE
    ELSE IF s[1] = t[1] THEN StrLess(Tail(s), Tail(t))
    ELSE Ord(s[1]) < Ord(t[1])

RECURSIVE sorted(_)
\* sorted(a set of str)
sorted(S) ==
    IF S = {} THEN <<>>
    ELSE LET least == CHOOSE x \in S : \A y \in S \ {x} : StrLess(x, y)
         IN  <<least>> \o sorted(S \ {least})

RECURSIVE ManagedHosts_AllBlocks(_, _)
\* collects the names of every block, managed or not
ManagedHosts_AllBlocks(blocks, k) ==
    IF k > Len(blocks) THEN <<>>
    ELSE blocks[k].hosts \o ManagedHosts_AllBlocks(blocks, k + 1)

RECURSIVE ManagedHosts(_, _)
\* for block in blocks: if block["managed"]: managed_hosts.extend(hosts)
ManagedHosts(blocks, k) ==
    IF k > Len(blocks) THEN <<>>
    ELSE (IF blocks[k].managed THEN blocks[k].hosts ELSE <<>>)
             \o ManagedHosts(blocks, k + 1)

\* set(list)
set(list) == { list[k] : k \in 1..Len(list) }

\* SSHManager.list_managed_hosts
list_managed_hosts(f) ==
    sorted(set(ManagedHosts(_parse_ssh_blocks(_load_ssh_config_lines(f)), 1)))

(***************************************************************************)
(* The inputs of the model.                                                *)
(***************************************************************************)
AliasA == <<"a">>
AliasB == <<"b">>
Aliases == {AliasA, AliasB}

\* the records handed to create_or_update
CfgA == [alias |-> AliasA, pod_id |-> <<"p">>, hostname |-> <<"h">>,
         port |-> 22, user |-> <<"r", "o", "o", "t">>,
         identity_file |-> None]
CfgB == [alias |-> AliasB, pod_id |-> <<"q">>, hostname |-> <<"h">>,
         port |-> 2200, user |-> <<"u">>,
         identity_file |-> Some(<<"k">>)]
Configs == {CfgA, CfgB}

\* the value of datetime.now(UTC).strftime("%Y-%m-%dT%H:%M:%SZ"): a token
\* without whitespace; the operations of a run fall within one second
Timestamps == {<<"t", "1">>}

\* the lines a user's document is made of
LineHostA == <<"H", "o", "s", "t", " ", "a", NL>>
LineHostAB == <<"H", "o", "s", "t", " ", "a", " ", "b", NL>>
LineMarker ==
    <<" ", " ">> \o MARKER_PREFIX
        \o <<" ", "p", "o", "d", "_", "i", "d", "=", "p", NL>>
LineBlank == <<NL>>
LineOpenX == <<"x">>
LineOpenBlank == <<" ">>

\* lines that end with a newline
TerminatedLines == {LineHostA, LineHostAB, LineMarker, LineBlank}
\* a last line that the user left without a newline
UnterminatedLines == {LineOpenX, LineOpenBlank}
LinePool == TerminatedLines \cup UnterminatedLines

\* the documents of at most MaxLines lines: every line but the last ends
\* with a newline
InitLines ==
    { s \in UNION { [1..n -> LinePool] : n \in 0..MaxLines } :
        \A k \in 1..(Len(s) - 1) : s[k] \in TerminatedLines }

InitFiles ==
    {NoFile} \cup { [exists |-> TRUE, data |-> Join(s)] : s \in InitLines }

(***************************************************************************)
(* The state machine: one action per operation of SSHManager.              *)
(***************************************************************************)
VARIABLES
    file,      \* the document file on disk
    before,    \* the document file as the last operation found it
    last,      \* the last operation: its name, arguments and result
    dir,       \* whether the parent directory of the document file exists
    run        \* the invocations in flight, each with its position

vars == <<file, before, last, dir, run>>

\* no invocation is in flight between two calls that run to their end
NoRun == <<>>

\* Path.mkdir(parents=True, exist_ok=True) before a write: after a call
\* that ran to its end the directory exists if it did or if the file does
Returned ==
    /\ dir' = (dir \/ file'.exists)
    /\ run' = run

\* the file system before the first call
InitDisk ==
    /\ dir \in BOOLEAN
    /\ file.exists => dir
    /\ run = NoRun

NoCall == [op |-> "none", cfg |-> CfgA, ts |-> <<>>, alias |-> <<>>,
           valid |-> {}, removed |-> FALSE, count |-> 0,
           found |-> None, err |-> "none", hosts |-> <<>>,
           made_dir |-> FALSE, blocks |-> <<>>]

Init ==
    /\ file \in InitFiles
    /\ before = file
    /\ last = NoCall
    /\ InitDisk

Update(ssh_config, timestamp) ==
    /\ file' = update_host_config(file, ssh_config, timestamp)
    /\ before' = file
    /\ last' = [NoCall EXCEPT !.op = "update", !.cfg = ssh_config,
                              !.ts = timestamp, !.alias = ssh_config.alias,
                              !.made_dir = ~dir]
    /\ Returned

Remove(alias) ==
    LET r == remove_host_config(file, alias)
    IN  /\ file' = r.file
        /\ before' = file
        /\ last' = [NoCall EXCEPT !.op = "remove", !.alias = alias,
                                  !.removed = r.ret]
        /\ Returned

Prune(valid_aliases) ==
    LET r == prune_managed_blocks(file, valid_aliases)
    IN  /\ file' = r.file
        /\ before' = file
        /\ last' = [NoCall EXCEPT !.op = "prune", !.valid = valid_aliases,
                                  !.count = r.ret]
        /\ Returned

\* get_host_config, were it to write back the lines it loaded
Get_WritesBack(alias) ==
    LET r == get_host_config(file, alias)
    IN  /\ file' = _write_ssh_config_lines(_load_ssh_config_lines(file))
        /\ before' = file
        /\ last' = [NoCall EXCEPT !.op = "get", !.alias = alias,
                                  !.found = r.found, !.err = r.err]
        /\ Returned

Get(alias) ==
    LET r == get_host_config(file, alias)
    IN  /\ file' = file
        /\ before' = file
        /\ last' = [NoCall EXCEPT !.op = "get", !.alias = alias,
                                  !.found = r.found, !.err = r.err]
        /\ Returned

List ==
    /\ file' = file
    /\ before' = file
    /\ last' = [NoCall EXCEPT !.op = "list",
                              !.hosts = list_managed_hosts(file)]
    /\ Returned

Next ==
    \/ \E ssh_config \in Configs, timestamp \in Timestamps :
           Update(ssh_config, timestamp)
    \/ \E alias \in Aliases : Remove(alias)
    \/ \E valid_aliases \in SUBSET Aliases : Prune(valid_aliases)

Spec == Init /\ [][Next]_vars

(***************************************************************************)
(* The readers on hand-edited documents: a first block of at most MaxBody  *)
(* body lines, then nothing or one complete managed block.                 *)
(***************************************************************************)
MaxBody == 4

LineHostBA == <<"H", "o", "s", "t", " ", "b", " ", "a", NL>>
LineHostB == <<"H", "o", "s", "t", " ", "b", NL>>
LineMarkerBare == <<" ", " ">> \o MARKER_PREFIX \o <<NL>>
LineMarkerQ ==
    <<" ", " ">> \o MARKER_PREFIX
        \o <<" ", "p", "o", "d", "_", "i", "d", "=", "q", NL>>
LineHostName == <<" ", " ">> \o KeyHostName \o <<"h", NL>>
LinePort == <<" ", " ">> \o KeyPort \o <<"2", "2", NL>>
LinePortBad == <<" ", " ">> \o KeyPort \o <<"x", NL>>
LinePortBig == <<" ", " ">> \o KeyPort \o <<"7", "0", "0", "0", "0", NL>>

BodyPool ==
    {LineMarker, LineMarkerBare, LineHostName, LinePort, LinePortBad}

ReadTails ==
    { <<>>,
      <<LineHostB, LineMarkerQ, LineHostName, LinePort>>,
      <<LineHostB, LineMarkerQ, LineHostName, LinePortBig>> }

ReadLines ==
    { <<LineHostBA>> \o body \o tail :
        body \in UNION { [1..n -> BodyPool] : n \in 0..MaxBody },
        tail \in ReadTails }

ReadFiles ==
    {NoFile} \cup { [exists |-> TRUE, data |-> Join(s)] : s \in ReadLines }

InitRead ==
    /\ file \in ReadFiles
    /\ before = file
    /\ last = NoCall
    /\ InitDisk

NextRead ==
    \/ \E alias \in Aliases : Get(alias)
    \/ List

SpecRead == InitRead /\ [][NextRead]_vars

(***************************************************************************)
(* Every operation of SSHManager on a missing file and on short documents, *)
(* for the alias a and for an alias that spells `pod_id=z`.                *)
(***************************************************************************)
AliasOdd == KeyPodId \o <<"z">>
CfgOdd == [CfgA EXCEPT !.alias = AliasOdd]

AllAliases == {AliasA, AliasOdd}
AllConfigs == {CfgA, CfgOdd}

AllLines ==
    { s \in UNION { [1..n -> {LineHostAB, LineMarker, LineOpenBlank}] :
                      n \in 0..MaxLines } :
        \A k \in 1..(Len(s) - 1) : s[k] \in TerminatedLines }

AllFiles ==
    {NoFile} \cup { [exists |-> TRUE, data |-> Join(s)] : s \in AllLines }

InitAll ==
    /\ file \in AllFiles
    /\ before = file
    /\ last = NoCall
    /\ InitDisk

NextAll ==
    \/ \E ssh_config \in AllConfigs, timestamp \in Timestamps :
           Update(ssh_config, timestamp)
    \/ \E alias \in AllAliases : Remove(alias)
    \/ \E valid_aliases \in SUBSET {AliasA} : Prune(valid_aliases)
    \/ \E alias \in AllAliases : Get(alias)
    \/ List

SpecAll == InitAll /\ [][NextAll]_vars

(***************************************************************************)
(* update_host_config step by step: the load, then the steps of            *)
(* _write_ssh_config_lines (mkdir, open("w"), writelines and close), each  *)
(* with the ways it can fail, and the process being interrupted while it   *)
(* writes.  run[p] is the invocation of process p.                         *)
(***************************************************************************)
Idle == [pc |-> "idle", cfg |-> CfgA, loaded |-> <<>>, content |-> <<>>,
         err |-> "none", old |-> NoFile]

\* lines 86-111: load the document and build the lines to write
LoadStep(p, ssh_config, timestamp) ==
    /\ run[p].pc = "idle"
    /\ run' = [run EXCEPT ![p] =
                  [pc |-> "mkdir", cfg |-> ssh_config,
                   loaded |-> _load_ssh_config_lines(file),
                   content |-> Join(update_lines(_load_ssh_config_lines(file),
                                                 ssh_config, timestamp)),
                   err |-> "none", old |-> file]]
    /\ before' = file
    /\ last' = [NoCall EXCEPT !.op = "update", !.cfg = ssh_config,
                              !.ts = timestamp, !.alias = ssh_config.alias,
                              !.made_dir = ~dir]
    /\ UNCHANGED <<file, dir>>

\* line 35: parent.mkdir(parents=True, exist_ok=True) succeeds
Mkdir(p) ==
    /\ run[p].pc = "mkdir"
    /\ dir' = TRUE
    /\ run' = [run EXCEPT ![p].pc = "open"]
    /\ UNCHANGED <<file, before, last>>

\* line 35: the directory is missing and cannot be made; the OSError
\* leaves _write_ssh_config_lines as it is, outside the try of line 36
MkdirFails(p) ==
    /\ run[p].pc = "mkdir"
    /\ ~dir
    /\ run' = [run EXCEPT ![p].pc = "raised", ![p].err = "OSError"]
    /\ UNCHANGED <<file, dir, before, last>>

\* opens the file without truncating it
Open_KeepsData(p) ==
    /\ run[p].pc = "open"
    /\ file' = [exists |-> TRUE, data |-> file.data]
    /\ run' = [run EXCEPT ![p].pc = "write"]
    /\ UNCHANGED <<dir, before, last>>

\* line 37: open("w") creates the file or truncates it
Open(p) ==
    /\ run[p].pc = "open"
    /\ file' = [exists |-> TRUE, data |-> <<>>]
    /\ run' = [run EXCEPT ![p].pc = "write"]
    /\ UNCHANGED <<dir, before, last>>

\* lines 37, 39-40: open("w") raises; the file is as it was
OpenFails(p) ==
    /\ run[p].pc = "open"
    /\ run' = [run EXCEPT ![p].pc = "raised", ![p].err = "SSHError"]
    /\ UNCHANGED <<file, dir, before, last>>

\* line 38 and the end of the with block: every line reaches the file
WriteAll(p) ==
    /\ run[p].pc = "write"
    /\ file' = [exists |-> TRUE, data |-> run[p].content]
    /\ run' = [run EXCEPT ![p].pc = "returned"]
    /\ UNCHANGED <<dir, before, last>>

\* lines 38-40: a write raises (disk full) after n characters reached the
\* file
WriteFails(p) ==
    /\ run[p].pc = "write"
    /\ \E n \in 0..(Len(run[p].content) - 1) :
           file' = [exists |-> TRUE, data |-> SubSeq(run[p].content, 1, n)]
    /\ run' = [run EXCEPT ![p].pc = "raised", ![p].err = "SSHError"]
    /\ UNCHANGED <<dir, before, last>>

\* the process is killed between open("w") and the end of the write, after
\* n characters reached the file
Interrupted(p) ==
    /\ run[p].pc = "write"
    /\ \E n \in 0..(Len(run[p].content) - 1) :
           file' = [exists |-> TRUE, data |-> SubSeq(run[p].content, 1, n)]
    /\ run' = [run EXCEPT ![p].pc = "killed"]
    /\ UNCHANGED <<dir, before, last>>

InitIO ==
    /\ file \in AllFiles
    /\ before = file
    /\ last = NoCall
    /\ dir \in BOOLEAN
    /\ file.exists => dir
    /\ run = <<Idle>>

NextIO ==
    \/ \E ssh_config \in AllConfigs, timestamp \in Timestamps :
           LoadStep(1, ssh_config, timestamp)
    \/ Mkdir(1)
    \/ MkdirFails(1)
    \/ Open(1)
    \/ OpenFails(1)
    \/ WriteAll(1)
    \/ WriteFails(1)
    \/ Interrupted(1)

SpecIO == InitIO /\ [][NextIO]_vars

(***************************************************************************)
(* Two processes, each running update_host_config once on the same file,   *)
(* with no lock: a process loads, and later writes what it built from what *)
(* it loaded.  The write is one step here (the interleavings in which the  *)
(* two writes overlap are left out).                                       *)
(***************************************************************************)
\* writes what it builds from the file as it is now
Persist_Reloads(p) ==
    /\ run[p].pc = "mkdir"
    /\ file' = update_host_config(file, run[p].cfg, last.ts)
    /\ dir' = TRUE
    /\ run' = [run EXCEPT ![p].pc = "returned"]
    /\ last' = [last EXCEPT !.cfg = run[p].cfg, !.alias = run[p].cfg.alias]
    /\ UNCHANGED before

\* line 113: self._write_ssh_config_lines(lines), without a failure
Persist(p) ==
    /\ run[p].pc = "mkdir"
    /\ file' = [exists |-> TRUE, data |-> run[p].content]
    /\ dir' = TRUE
    /\ run' = [run EXCEPT ![p].pc = "returned"]
    /\ last' = [last EXCEPT !.cfg = run[p].cfg, !.alias = run[p].cfg.alias]
    /\ UNCHANGED before

Procs == {1, 2}

InitConc ==
    /\ file \in AllFiles
    /\ before = file
    /\ last = NoCall
    /\ dir \in BOOLEAN
    /\ file.exists => dir
    /\ run = <<Idle, Idle>>

NextConc ==
    \/ \E p \in Procs, ssh_config \in Configs, timestamp \in Timestamps :
           LoadStep(p, ssh_config, timestamp)
    \/ \E p \in Procs : Persist(p)

SpecConc == InitConc /\ [][NextConc]_vars

(***************************************************************************)
(* The parser on its own, on documents with lines that begin like an       *)
(* opening line and name no host.                                          *)
(***************************************************************************)
LineHostOnly == HostKeyword \o <<NL>>
LineHostSpaces == HostKeyword \o <<" ", " ", NL>>

ParsePool ==
    {LineHostA, LineHostAB, LineMarker, LineBlank, LineHostOnly,
     LineHostSpaces, LineOpenX}

ParseLines ==
    { s \in UNION { [1..n -> ParsePool] : n \in 0..MaxLines } :
        \A k \in 1..(Len(s) - 1) : s[k] \in TerminatedLines \cup
                                       {LineHostOnly, LineHostSpaces} }

ParseFiles ==
    {NoFile} \cup { [exists |-> TRUE, data |-> Join(s)] : s \in ParseLines }

Parse ==
    /\ last' = [NoCall EXCEPT
                   !.op = "parse",
                   !.blocks = _parse_ssh_blocks(_load_ssh_config_lines(file))]
    /\ before' = file
    /\ file' = file
    /\ Returned

InitParse ==
    /\ file \in ParseFiles
    /\ before = file
    /\ last = NoCall
    /\ InitDisk

NextParse == Parse

SpecParse == InitParse /\ [][NextParse]_vars

(***************************************************************************)
(* The operations step by step in one process: the load at the top of the  *)
(* operation, the write at its bottom when it writes, and its return; the  *)
(* user edits the file between two calls.                                  *)
(***************************************************************************)
\* the calls of the process
Calls ==
    { [NoCall EXCEPT !.op = "update", !.cfg = CfgA, !.alias = AliasA,
                     !.ts = ts] : ts \in Timestamps }
    \cup { [NoCall EXCEPT !.op = "remove", !.alias = AliasA] }
    \cup { [NoCall EXCEPT !.op = "prune", !.valid = v] :
             v \in SUBSET {AliasA} }
    \cup { [NoCall EXCEPT !.op = "get", !.alias = AliasA] }
    \cup { [NoCall EXCEPT !.op = "list"] }

\* the lines a call holds in its local variable `lines`, as a document
Snapshot(lines) == [exists |-> TRUE, data |-> Join(lines)]

\* what a call does with the lines it loaded: whether it reaches
\* self._write_ssh_config_lines, with which lines, and what it returns
Compute(call, lines) ==
    CASE call.op = "update" ->
             [writes |-> TRUE,
              content |-> update_lines(lines, call.cfg, call.ts),
              result |-> call]
      [] call.op = "remove" ->
             LET r == remove_host_config(Snapshot(lines), call.alias)
             IN  [writes |-> r.ret,
                  content |-> _load_ssh_config_lines(r.file),
                  result |-> [call EXCEPT !.removed = r.ret]]
      [] call.op = "prune" ->
             LET r == prune_managed_blocks(Snapshot(lines), call.valid)
             IN  [writes |-> r.ret > 0,
                  content |-> _load_ssh_config_lines(r.file),
                  result |-> [call EXCEPT !.count = r.ret]]
      [] call.op = "get" ->
             LET r == get_host_config(Snapshot(lines), call.alias)
             IN  [writes |-> FALSE,
                  content |-> lines,
                  result |-> [call EXCEPT !.found = r.found,
                                          !.err = r.err]]
      [] call.op = "list" ->
             [writes |-> FALSE,
              content |-> lines,
              result |-> [call EXCEPT
                             !.hosts = list_managed_hosts(Snapshot(lines))]]

NotCalled == [pc |-> "idle", call |-> NoCall, old |-> NoFile,
              lines |-> <<>>, loads |-> 0, writes |-> 0, edited |-> FALSE]

\* keeps the lines of the call before
Loaded_Cached(p) ==
    IF last.op # "none"
    THEN _load_ssh_config_lines(before)
    ELSE _load_ssh_config_lines(file)

\* lines = self._load_ssh_config_lines(), the first statement of every
\* operation
Loaded(p) == _load_ssh_config_lines(file)

CallStep(p, call) ==
    /\ run[p].pc = "idle"
    /\ run' = [run EXCEPT ![p] =
                  [pc |-> "loaded", call |-> call, old |-> file,
                   lines |-> Loaded(p), loads |-> 1, writes |-> 0,
                   edited |-> run[p].edited]]
    /\ UNCHANGED <<file, dir, before, last>>

\* self._write_ssh_config_lines(...) at the end of an operation that
\* reaches it
WriteStep(p) ==
    /\ run[p].pc = "loaded"
    /\ Compute(run[p].call, run[p].lines).writes
    /\ file' = _write_ssh_config_lines(
                   Compute(run[p].call, run[p].lines).content)
    /\ dir' = TRUE
    /\ run' = [run EXCEPT ![p].pc = "written",
                          ![p].writes = run[p].writes + 1]
    /\ UNCHANGED <<before, last>>

\* the return of the operation; its local variables are gone
ReturnStep(p) ==
    /\ \/ run[p].pc = "written"
       \/ /\ run[p].pc = "loaded"
          /\ ~Compute(run[p].call, run[p].lines).writes
    /\ last' = Compute(run[p].call, run[p].lines).result
    /\ before' = run[p].old
    /\ run' = [run EXCEPT ![p] = NotCalled]
    /\ UNCHANGED <<file, dir>>

\* the documents the user saves
EditedFiles ==
    { Snapshot(<<LineHostAB, LineMarker>>), Snapshot(<<LineBlank>>) }

\* the user saves another document between two calls
Edit(p) ==
    /\ run[p].pc = "idle"
    /\ ~run[p].edited
    /\ \E f \in EditedFiles \ {file} : file' = f
    /\ run' = [run EXCEPT ![p].edited = TRUE]
    /\ UNCHANGED <<dir, before, last>>

InitCalls ==
    /\ file \in AllFiles
    /\ before = file
    /\ last = NoCall
    /\ dir \in BOOLEAN
    /\ file.exists => dir
    /\ run = <<NotCalled>>

NextCalls ==
    \/ \E call \in Calls : CallStep(1, call)
    \/ WriteStep(1)
    \/ ReturnStep(1)
    \/ Edit(1)

SpecCalls == InitCalls /\ [][NextCalls]_vars

(***************************************************************************)
(* Vocabulary of the properties.                                           *)
(***************************************************************************)
\* the lines and the blocks of a document file
LinesOf(f) == _load_ssh_config_lines(f)
BlocksOf(f) == _parse_ssh_blocks(LinesOf(f))

\* the lines of block b of lines
BlockText(lines, b) == SubSeq(lines, b.start + 1, b.end)

\* the blocks of a file in document order, each with its names, its tag and
\* its lines
ContentsOf(f) ==
    LET lines == LinesOf(f)
        blocks == _parse_ssh_blocks(lines)
    IN  [k \in 1..Len(blocks) |->
            [hosts |-> blocks[k].hosts,
             managed |-> blocks[k].managed,
             text |-> BlockText(lines, blocks[k])]]

IsUnmanaged(c) == ~c.managed
Lists(c, alias) == \E k \in 1..Len(c.hosts) : c.hosts[k] = alias
ManagedFor(c, alias) == c.managed /\ Lists(c, alias)
HasValidHost(c, valid) == \E k \in 1..Len(c.hosts) : c.hosts[k] \in valid
Stale(c, valid) == c.managed /\ ~HasValidHost(c, valid)

\* the number of elements of a sequence that satisfy Test
Count(seq, Test(_)) == Len(SelectSeq(seq, Test))

\* position in ContentsOf(f) of the first block that lists alias, 0 if none
RECURSIVE FirstListing(_, _, _)
FirstListing(contents, alias, k) ==
    IF k > Len(contents) THEN 0
    ELSE IF Lists(contents[k], alias) THEN k
    ELSE FirstListing(contents, alias, k + 1)

\* the canonical block of the last create_or_update
Canonical == to_ssh_block(last.cfg, last.ts)

(***************************************************************************)
(* C1: remove(alias) and prune(validAliases) never delete or alter a line  *)
(* of an unmanaged block, even one whose hosts include the alias: the      *)
(* unmanaged blocks of the document before the call are the unmanaged      *)
(* blocks of the document after it, with the same lines in the same order. *)
(***************************************************************************)
C1_UnmanagedBlocksPreserved ==
    last.op \in {"remove", "prune"} =>
        SelectSeq(ContentsOf(file), IsUnmanaged)
            = SelectSeq(ContentsOf(before), IsUnmanaged)

\* a remove that deleted a managed block for the alias while an unmanaged
\* block listing the same alias was in the document
C1_Witness ==
    /\ last.op = "remove"
    /\ last.removed
    /\ \E k \in 1..Len(ContentsOf(before)) :
           /\ IsUnmanaged(ContentsOf(before)[k])
           /\ Lists(ContentsOf(before)[k], last.alias)

(***************************************************************************)
(* C2: remove(alias) deletes every managed block whose hosts contain       *)
(* alias (all of them, also a block of several names addressed by one of   *)
(* them) and no other block, returns true iff at least one block was       *)
(* deleted, and leaves no managed block that lists alias.                  *)
(***************************************************************************)
C2_RemoveDeletesAllManaged ==
    last.op = "remove" =>
        LET old == ContentsOf(before)
            new == ContentsOf(file)
        IN  /\ new = SelectSeq(old, LAMBDA c : ~ManagedFor(c, last.alias))
            /\ last.removed <=> Len(new) < Len(old)
            /\ last.removed <=>
                   \E k \in 1..Len(old) : ManagedFor(old[k], last.alias)
            /\ \A k \in 1..Len(new) : ~ManagedFor(new[k], last.alias)

\* remove("b") deleted two managed blocks at once, one of them `Host a b`
C2_Witness ==
    /\ last.op = "remove"
    /\ last.alias = AliasB
    /\ last.removed
    /\ Count(ContentsOf(before), LAMBDA c : ManagedFor(c, AliasB)) >= 2
    /\ \E k \in 1..Len(ContentsOf(before)) :
           /\ ManagedFor(ContentsOf(before)[k], AliasB)
           /\ ContentsOf(before)[k].hosts = <<AliasA, AliasB>>

(***************************************************************************)
(* C3: when no managed block lists alias (the only block with that alias   *)
(* is unmanaged, or the document is empty or missing), remove(alias)       *)
(* returns false and the document file is unchanged.                       *)
(***************************************************************************)
C3_RemoveNothingToDo ==
    ( /\ last.op = "remove"
      /\ \A k \in 1..Len(ContentsOf(before)) :
             ~ManagedFor(ContentsOf(before)[k], last.alias) )
    => (~last.removed /\ file = before)

\* remove(alias) found the alias in an unmanaged block only
C3_Witness ==
    /\ last.op = "remove"
    /\ ~last.removed
    /\ \E k \in 1..Len(ContentsOf(before)) :
           Lists(ContentsOf(before)[k], last.alias)
    /\ \A k \in 1..Len(ContentsOf(before)) :
           ~ContentsOf(before)[k].managed

(***************************************************************************)
(* C4: prune(validAliases) deletes exactly the managed blocks none of      *)
(* whose hosts is in validAliases: a managed block with one valid host is  *)
(* retained with all its lines, prune of the empty set deletes every       *)
(* managed block, and the retained blocks keep their lines and order.      *)
(***************************************************************************)
C4_PruneDeletesExactlyStale ==
    last.op = "prune" =>
        LET old == ContentsOf(before)
            new == ContentsOf(file)
        IN  /\ new = SelectSeq(old, LAMBDA c : ~Stale(c, last.valid))
            /\ last.valid = {} => \A k \in 1..Len(new) : ~new[k].managed

\* a prune that deleted a block and retained the managed block `Host a b`,
\* of which one name is valid and the other is not
C4_Witness ==
    /\ last.op = "prune"
    /\ last.count > 0
    /\ \E k \in 1..Len(ContentsOf(file)) :
           /\ ContentsOf(file)[k].managed
           /\ ContentsOf(file)[k].hosts = <<AliasA, AliasB>>
           /\ Cardinality(last.valid) = 1

(***************************************************************************)
(* C5: the integer prune(validAliases) returns is the number of managed    *)
(* blocks of the input that have no host in validAliases, which is the     *)
(* number of blocks missing from the output; it is 0, with the document    *)
(* file unchanged, when every managed block has a valid host.              *)
(***************************************************************************)
C5_PruneCount ==
    last.op = "prune" =>
        LET old == ContentsOf(before)
            new == ContentsOf(file)
        IN  /\ last.count = Count(old, LAMBDA c : Stale(c, last.valid))
            /\ last.count = Len(old) - Len(new)
            /\ (\A k \in 1..Len(old) : ~Stale(old[k], last.valid))
                   => (last.count = 0 /\ file = before)

\* a prune that removed two blocks and kept a third, managed one
C5_Witness ==
    /\ last.op = "prune"
    /\ last.count = 2
    /\ \E k \in 1..Len(ContentsOf(file)) : ContentsOf(file)[k].managed

(***************************************************************************)
(* C6: when the first block that lists alias x is unmanaged,               *)
(* create_or_update(record with alias x) replaces the whole range of that  *)
(* block by the canonical block of the record; the block is managed        *)
(* afterwards, and a remove(x) that follows returns true and deletes it.   *)
(***************************************************************************)
FirstListingIsUnmanaged(f, alias) ==
    LET c == ContentsOf(f)
        t == FirstListing(c, alias, 1)
    IN  t # 0 /\ ~c[t].managed

C6_OverwriteUnmanagedThenRemove ==
    [][ (last.op = "update" /\ FirstListingIsUnmanaged(before, last.alias))
        => LET old == LinesOf(before)
               t == FirstListing(ContentsOf(before), last.alias, 1)
               b == BlocksOf(before)[t]
           IN  /\ LinesOf(file) = SubSeq(old, 1, b.start) \o Canonical
                                      \o SubSeq(old, b.end + 1, Len(old))
               /\ ContentsOf(file)[t] = [hosts |-> <<last.alias>>,
                                         managed |-> TRUE,
                                         text |-> Canonical]
               /\ (last'.op = "remove" /\ last'.alias = last.alias)
                      => /\ last'.removed
                         /\ \A k \in 1..Len(ContentsOf(file')) :
                                ContentsOf(file')[k].text # Canonical
                         /\ Len(ContentsOf(file')) < Len(ContentsOf(file))
      ]_vars

\* create_or_update has just replaced an unmanaged block of several lines
C6_Witness ==
    /\ last.op = "update"
    /\ FirstListingIsUnmanaged(before, last.alias)
    /\ LET t == FirstListing(ContentsOf(before), last.alias, 1)
       IN  Len(ContentsOf(before)[t].text) >= 2

(***************************************************************************)
(* C7: for any starting document, create_or_update called twice in a row   *)
(* with the same record and the same timestamp leaves, after the second    *)
(* call, the document the first call left.                                 *)
(***************************************************************************)
C7_UpdateTwiceSameDocument ==
    [][ ( /\ last.op = "update"
          /\ last'.op = "update"
          /\ last'.cfg = last.cfg
          /\ last'.ts = last.ts )
        => file' = file ]_vars

(***************************************************************************)
(* C8: from an empty or missing document, one create_or_update leaves a    *)
(* document that is exactly the canonical block of the record: one block,  *)
(* starting at line 0, with no leading blank line.                         *)
(***************************************************************************)
C8_FirstBlockOfEmptyDocument ==
    (last.op = "update" /\ LinesOf(before) = <<>>)
    => /\ file.exists
       /\ file.data = Join(Canonical)
       /\ LinesOf(file) = Canonical
       /\ Len(BlocksOf(file)) = 1
       /\ BlocksOf(file)[1].start = 0
       /\ BlocksOf(file)[1].end = Len(Canonical)

\* create_or_update has just created the missing document file
C8_Witness ==
    /\ last.op = "update"
    /\ ~before.exists
    /\ file.exists

(***************************************************************************)
(* C9: when no block lists the record's alias and the last line of the     *)
(* document is non-blank, create_or_update appends the block at the end,   *)
(* with exactly one blank separator line between the previous last line    *)
(* and the new `Host` line; when the last line is blank, the block follows *)
(* with no separator.                                                      *)
(***************************************************************************)
\* a line without its newline
Chomp(line) ==
    IF line # <<>> /\ line[Len(line)] = NL
    THEN SubSeq(line, 1, Len(line) - 1) ELSE line

ChompAll(lines) == [k \in 1..Len(lines) |-> Chomp(lines[k])]

C9_SeparatorBeforeAppendedBlock ==
    ( /\ last.op = "update"
      /\ LinesOf(before) # <<>>
      /\ FirstListing(ContentsOf(before), last.alias, 1) = 0 )
    => LET old == LinesOf(before)
           new == LinesOf(file)
           n == Len(old)
       IN  IF strip(old[n]) # <<>>
           THEN /\ Len(new) = n + 1 + Len(Canonical)
                /\ ChompAll(SubSeq(new, 1, n)) = ChompAll(old)
                /\ strip(new[n + 1]) = <<>>
                /\ SubSeq(new, n + 2, Len(new)) = Canonical
           ELSE file.data = before.data \o Join(Canonical)

(***************************************************************************)
(* C10: create_or_update touches only the first block that lists the       *)
(* record's alias: the lines before the start of that block and the lines  *)
(* from its end onward are the same lines in the same order in the output, *)
(* and when no block matches, the original lines are a prefix of the       *)
(* output.  (Lines are compared without their newline where the claim      *)
(* could be read either way.)                                              *)
(***************************************************************************)
C10_UpdateTouchesOnlyTarget ==
    last.op = "update"
    => LET old == LinesOf(before)
           new == LinesOf(file)
           t == FirstListing(ContentsOf(before), last.alias, 1)
       IN  IF t = 0
           THEN /\ Len(new) >= Len(old)
                /\ ChompAll(SubSeq(new, 1, Len(old))) = ChompAll(old)
           ELSE LET b == BlocksOf(before)[t]
                    tail == Len(old) - b.end
                IN  /\ Len(new) >= b.start + tail
                    /\ SubSeq(new, 1, b.start) = SubSeq(old, 1, b.start)
                    /\ SubSeq(new, Len(new) - tail + 1, Len(new))
                           = SubSeq(old, b.end + 1, Len(old))

(***************************************************************************)
(* Vocabulary of the reader properties: what the body lines of a block     *)
(* carry, told from the text alone.                                        *)
(***************************************************************************)
BodyOf(c) == Tail(c.text)

HasKey(c, key) ==
    \E k \in 1..Len(BodyOf(c)) : startswith(strip(BodyOf(c)[k]), key)

HasPodId(c) ==
    \E k \in 1..Len(BodyOf(c)) :
        /\ startswith(strip(BodyOf(c)[k]), MARKER_PREFIX)
        /\ Find(BodyOf(c)[k], KeyPodId, 1) # 0

\* the block lacks HostName, Port or the resource id of a marker line
LacksRequired(c) ==
    ~HasKey(c, KeyHostName) \/ ~HasKey(c, KeyPort) \/ ~HasPodId(c)

\* the block has lines that spell the hostname, the port and the resource
\* id of rec
Carries(c, rec) ==
    /\ \E k \in 1..Len(BodyOf(c)) :
           strip(BodyOf(c)[k]) = KeyHostName \o rec.hostname
    /\ \E k \in 1..Len(BodyOf(c)) :
           strip(BodyOf(c)[k]) = KeyPort \o Decimal(rec.port)
    /\ \E k \in 1..Len(BodyOf(c)) :
           /\ startswith(strip(BodyOf(c)[k]), MARKER_PREFIX)
           /\ Find(BodyOf(c)[k], <<" ">> \o KeyPodId \o rec.pod_id, 1) # 0

\* the blocks of the document that are managed and list alias
ManagedBlocksFor(f, alias) ==
    SelectSeq(ContentsOf(f), LAMBDA c : ManagedFor(c, alias))

WithoutMalformedPort(f) ==
    IF ~f.exists THEN f
    ELSE [exists |-> TRUE,
          data |-> Join(SelectSeq(LinesOf(f),
                                  LAMBDA l : ~MalformedPort(l)))]

\* every Port line of the block is malformed, and there is one
OnlyMalformedPort(c) ==
    /\ \E k \in 1..Len(BodyOf(c)) : MalformedPort(BodyOf(c)[k])
    /\ \A k \in 1..Len(BodyOf(c)) :
           startswith(strip(BodyOf(c)[k]), KeyPort)
               => MalformedPort(BodyOf(c)[k])

(***************************************************************************)
(* C12: in read(alias), a Port line of a managed block whose value is not  *)
(* an integer is treated as if the Port field were absent: no error is     *)
(* raised, the remaining lines of the block are still read, and the lookup *)
(* for that block reports not-configured.  The lookup answers as it does   *)
(* on the document without the malformed Port lines, and when the Port     *)
(* lines of every managed block for the alias are malformed it answers     *)
(* None without raising.                                                   *)
(***************************************************************************)
C12_MalformedPortIsAbsent ==
    last.op = "get"
    => LET mine == ManagedBlocksFor(file, last.alias)
       IN  /\ [found |-> last.found, err |-> last.err]
                  = get_host_config(WithoutMalformedPort(file), last.alias)
           /\ (\A k \in 1..Len(mine) : OnlyMalformedPort(mine[k]))
                  => last.found = None /\ last.err = "none"

\* a lookup of an alias whose one managed block has a resource id, a
\* malformed Port line and, after it, a HostName line
C12_Witness ==
    /\ last.op = "get"
    /\ last.found = None
    /\ last.err = "none"
    /\ LET mine == ManagedBlocksFor(file, last.alias)
       IN  /\ Len(mine) = 1
           /\ OnlyMalformedPort(mine[1])
           /\ HasPodId(mine[1])
           /\ \E j, k \in 1..Len(BodyOf(mine[1])) :
                  /\ j < k
                  /\ MalformedPort(BodyOf(mine[1])[j])
                  /\ startswith(strip(BodyOf(mine[1])[k]), KeyHostName)

\* the names on the opening lines of the managed blocks of a document
ManagedNames(f) ==
    LET cs == ContentsOf(f)
    IN  UNION { set(cs[k].hosts) : k \in { j \in 1..Len(cs) : cs[j].managed } }

\* the names on the opening lines of the unmanaged blocks of a document
UnmanagedNames(f) ==
    LET cs == ContentsOf(f)
    IN  UNION { set(cs[k].hosts) : k \in { j \in 1..Len(cs) : ~cs[j].managed } }

(***************************************************************************)
(* C14: list_managed_aliases() returns exactly the set of host names that  *)
(* appear on the opening line of at least one managed block, with no       *)
(* duplicates, in ascending sorted order, and contains no name that        *)
(* appears only in unmanaged blocks.                                       *)
(***************************************************************************)
C14_ListSortedManagedNames ==
    last.op = "list"
    => LET managed == ManagedNames(file)
           unmanaged == UnmanagedNames(file)
       IN  /\ set(last.hosts) = managed
           /\ \A j, k \in 1..Len(last.hosts) :
                  j < k => StrLess(last.hosts[j], last.hosts[k])
           /\ \A k \in 1..Len(last.hosts) :
                  last.hosts[k] \notin unmanaged \ managed

\* a listing of a document whose managed blocks name b twice and name b
\* before a
C14_Witness ==
    /\ last.op = "list"
    /\ last.hosts = <<AliasA, AliasB>>
    /\ LET raw == ManagedHosts(BlocksOf(file), 1)
       IN  /\ Len(raw) = 3
           /\ raw[1] = AliasB
           /\ raw[2] = AliasA

(***************************************************************************)
(* C13: round trip: for any starting document and any record (alias a      *)
(* single non-empty token), after create_or_update(record) a               *)
(* read(record.alias) returns a record with the same alias, resource id,   *)
(* hostname, port, user and identity file as the one written.              *)
(***************************************************************************)
C13_ReadAfterUpdate ==
    [][ (last.op = "update" /\ last'.op = "get"
            /\ last'.alias = last.alias)
        => (last'.err = "none" /\ last'.found = Some(last.cfg)) ]_vars

(***************************************************************************)
(* C15: a missing document file is treated by every operation as an empty  *)
(* document and never as an error: read returns absent, list returns an    *)
(* empty list, remove returns false and prune returns 0; the first         *)
(* create_or_update then creates the file (and its parent directory)       *)
(* containing the new block.                                               *)
(***************************************************************************)
C15_MissingFileIsEmptyDocument ==
    ~before.exists
    => /\ last.op = "get" => last.found = None /\ last.err = "none"
       /\ last.op = "list" => last.hosts = <<>>
       /\ last.op = "remove" => ~last.removed
       /\ last.op = "prune" => last.count = 0
       /\ last.op \in {"get", "list", "remove", "prune"} => ~file.exists
       /\ last.op = "update"
              => file.exists /\ dir /\ LinesOf(file) = Canonical

\* the first create_or_update on a missing file in a missing directory
C15_Witness ==
    /\ ~before.exists
    /\ last.op = "update"
    /\ last.made_dir
    /\ file.exists
    /\ dir

(***************************************************************************)
(* C16: every failure that occurs while persisting the rewritten document  *)
(* (creating the parent directory, opening the file, or writing its lines) *)
(* is surfaced to the caller as the configuration-update failure           *)
(* (SSHError.config_update_failed) carrying the underlying cause, and the  *)
(* engine performs no automatic retry: an invocation that raised, raised   *)
(* SSHError, and it stays where it raised.                                 *)
(***************************************************************************)
C16_WriteFailureIsSSHError ==
    [][ \A p \in 1..Len(run) :
            /\ run'[p].pc = "raised" => run'[p].err = "SSHError"
            /\ run[p].pc = "raised" => run'[p] = run[p] /\ file' = file ]_vars

IsStrictPrefix(s, t) == Len(s) < Len(t) /\ s = SubSeq(t, 1, Len(s))

(***************************************************************************)
(* C18: a rewrite is a truncate followed by writing the new lines, so if   *)
(* the process is interrupted between the truncate and the end of the      *)
(* write, the on-disk document can be a strict prefix of the intended      *)
(* content (possibly empty) that equals neither the old nor the new        *)
(* document.  From open("w") to the write the file is empty, and after an  *)
(* interruption it holds a strict prefix of the intended content.          *)
(***************************************************************************)
C18_InterruptedWriteLeavesPrefix ==
    \A p \in 1..Len(run) :
        /\ run[p].pc = "write" => file = [exists |-> TRUE, data |-> <<>>]
        /\ run[p].pc = "killed"
               => file.exists /\ IsStrictPrefix(file.data, run[p].content)

\* an interrupted rewrite of a document that had lines: the file holds
\* some but not all of the new content and is not the old document either
C18_Witness ==
    /\ Len(run) = 1
    /\ run[1].pc = "killed"
    /\ run[1].old.exists
    /\ run[1].old.data # <<>>
    /\ file.data # <<>>
    /\ file.data # run[1].old.data
    /\ file.data # run[1].content
    /\ IsStrictPrefix(file.data, run[1].content)
    /\ ~IsStrictPrefix(file.data, run[1].old.data)

\* both processes returned from update_host_config, for different aliases,
\* having loaded the same document
BothReturnedFromSameDocument ==
    /\ Len(run) = 2
    /\ run[1].pc = "returned"
    /\ run[2].pc = "returned"
    /\ run[1].cfg.alias # run[2].cfg.alias
    /\ run[1].old = run[2].old

\* the process that wrote last, and the other one
LastWriter == CHOOSE p \in Procs : run[p].cfg = last.cfg
FirstWriter == CHOOSE p \in Procs : p # LastWriter

(***************************************************************************)
(* C17: with two invocations running concurrently on the same document and *)
(* no locking, a lost update is reachable: there is an interleaving in     *)
(* which both operations (create_or_update for two different aliases) load *)
(* the same document, both complete successfully, and the final document   *)
(* contains only the last writer's edit.  Whenever both loaded the same    *)
(* document and both returned, the file is what the last writer built from *)
(* that document, and where the document had no block for the first        *)
(* writer's alias the file has none either.                                *)
(***************************************************************************)
C17_LastWriterWins ==
    BothReturnedFromSameDocument
    => /\ file.data = run[LastWriter].content
       /\ file = update_host_config(run[1].old, last.cfg, last.ts)
       /\ list_managed_hosts(run[1].old) = <<>>
              => list_managed_hosts(file) = <<last.cfg.alias>>

\* both updates returned and the first writer's alias, which it wrote into
\* the file, is in no block of the final document
C17_Witness ==
    /\ BothReturnedFromSameDocument
    /\ get_host_config(file, last.cfg.alias) = [found |-> Some(last.cfg),
                                                 err |-> "none"]
    /\ get_host_config([exists |-> TRUE, data |-> run[FirstWriter].content],
                       run[FirstWriter].cfg.alias).found # None
    /\ \A k \in 1..Len(ContentsOf(file)) :
           ~Lists(ContentsOf(file)[k], run[FirstWriter].cfg.alias)

RECURSIVE Reassemble(_, _, _, _)
\* the lines before block k that are in no block, then the range of block
\* k, and so on in index order, from position pos; the lines after the last
\* block at the end
Reassemble(lines, blocks, k, pos) ==
    IF k > Len(blocks) THEN SubSeq(lines, pos + 1, Len(lines))
    ELSE SubSeq(lines, pos + 1, blocks[k].start)
             \o SubSeq(lines, blocks[k].start + 1, blocks[k].end)
             \o Reassemble(lines, blocks, k + 1, blocks[k].end)

(***************************************************************************)
(* C19: for every line sequence, the parser returns blocks in strictly     *)
(* increasing order of start, each with 0 <= start < end <= number of      *)
(* lines, pairwise non-overlapping (each block's end <= the next block's   *)
(* start), and concatenating the non-block lines and the block ranges in   *)
(* index order reproduces the input exactly.                               *)
(***************************************************************************)
C19_BlocksPartitionTheDocument ==
    last.op = "parse"
    => LET lines == LinesOf(file)
           blocks == last.blocks
       IN  /\ \A k \in 1..Len(blocks) :
                  /\ 0 <= blocks[k].start
                  /\ blocks[k].start < blocks[k].end
                  /\ blocks[k].end <= Len(lines)
           /\ \A k \in 1..(Len(blocks) - 1) :
                  /\ blocks[k].start < blocks[k + 1].start
                  /\ blocks[k].end <= blocks[k + 1].start
           /\ Reassemble(lines, blocks, 1, 0) = lines

\* a parse that gave two blocks with a line in no block between them
C19_Witness ==
    /\ last.op = "parse"
    /\ Len(last.blocks) = 2
    /\ last.blocks[1].end < last.blocks[2].start

(***************************************************************************)
(* C20: every block's exclusive end is either the end of input or the      *)
(* index of a line that itself matches the block-opening grammar and       *)
(* therefore is the start of the next block; a line that is not a valid    *)
(* opener never terminates a block.                                        *)
(***************************************************************************)
C20_BlockEndsAtOpenerOrEOF ==
    last.op = "parse"
    => LET lines == LinesOf(file)
           blocks == last.blocks
       IN  \A k \in 1..Len(blocks) :
               \/ blocks[k].end = Len(lines)
               \/ /\ HostMatch(lines[blocks[k].end + 1]).matched
                  /\ k < Len(blocks)
                  /\ blocks[k + 1].start = blocks[k].end

(***************************************************************************)
(* C21: a `Host` line with zero name tokens after whitespace trimming      *)
(* (`Host` followed only by spaces or tabs) never opens a block: every     *)
(* block the parser returns has at least one name in hosts.                *)
(***************************************************************************)
C21_EveryBlockNamesAHost ==
    last.op = "parse"
    => \A k \in 1..Len(last.blocks) : Len(last.blocks[k].hosts) >= 1

\* line j (0-based) of lines begins, after its leading whitespace, with the
\* marker prefix
IsMarkerAt(lines, j) == startswith(lstrip(lines[j + 1]), MARKER_PREFIX)

(***************************************************************************)
(* C22: a block is tagged managed iff some line strictly after its opening *)
(* line and before its end begins, after trimming leading whitespace, with *)
(* the marker prefix; marker_index is then the index of the first such     *)
(* line, and is absent (-1) exactly when the block is unmanaged.  A marker *)
(* on the opening line itself or outside the block range does not make the *)
(* block managed.                                                          *)
(***************************************************************************)
C22_ManagedIffMarkerInBody ==
    last.op = "parse"
    => LET lines == LinesOf(file)
       IN  \A k \in 1..Len(last.blocks) :
               LET b == last.blocks[k]
                   body == (b.start + 1)..(b.end - 1)
               IN  /\ b.managed <=> \E j \in body : IsMarkerAt(lines, j)
                   /\ b.managed <=> b.marker_index # -1
                   /\ b.managed
                          => /\ b.marker_index \in body
                             /\ IsMarkerAt(lines, b.marker_index)
                             /\ \A j \in body :
                                    j < b.marker_index
                                        => ~IsMarkerAt(lines, j)

\* a parse of a document with a marker line before its one block and a
\* marker line in the body of the block
C22_Witness ==
    /\ last.op = "parse"
    /\ Len(last.blocks) = 1
    /\ last.blocks[1].start = 1
    /\ IsMarkerAt(LinesOf(file), 0)
    /\ last.blocks[1].managed
    /\ last.blocks[1].marker_index = 2

\* the lines of a document that are in no block, in document order
NonBlockLines(f) ==
    LET lines == LinesOf(f)
        blocks == _parse_ssh_blocks(lines)
        free == { i \in 1..Len(lines) :
                    \A k \in 1..Len(blocks) :
                        i <= blocks[k].start \/ i > blocks[k].end }
    IN  SelectSeq([i \in 1..Len(lines) |-> <<i, lines[i]>>],
                  LAMBDA e : e[1] \in free)

TextOf(entries) == [k \in 1..Len(entries) |-> entries[k][2]]

IsPrefix(s, t) == Len(s) <= Len(t) /\ s = SubSeq(t, 1, Len(s))

(***************************************************************************)
(* C23: lines that belong to no block (global options, blank lines and     *)
(* comments before the first `Host` line) are never deleted, altered or    *)
(* reordered by any rewrite performed by create_or_update, remove or       *)
(* prune, after any sequence of those operations: the lines in no block    *)
(* before a call are, in the same order, the first lines in no block after *)
(* it (a line is compared without its newline).                            *)
(***************************************************************************)
C23_NonBlockLinesPassThrough ==
    last.op \in {"update", "remove", "prune"}
    => IsPrefix(ChompAll(TextOf(NonBlockLines(before))),
                ChompAll(TextOf(NonBlockLines(file))))

(***************************************************************************)
(* C24: each operation performs exactly one load of the whole document and *)
(* at most one write; a write always stores the complete new line sequence *)
(* computed from that single load (never an incremental patch), and no     *)
(* parsed state is carried from one call to the next, so an edit made to   *)
(* the document between two calls is seen by the second call.              *)
(***************************************************************************)
C24_OneLoadOneFullRewrite ==
    [][ \A p \in 1..Len(run) :
            /\ run'[p].pc # "idle"
                   => run'[p].loads = 1 /\ run'[p].writes <= 1
            /\ (run[p].pc = "idle" /\ run'[p].pc = "loaded")
                   => run'[p].lines = LinesOf(file)
            /\ (run[p].pc = "loaded" /\ run'[p].pc = "written")
                   => /\ run'[p].writes = 1
                      /\ file' = Snapshot(Compute(run[p].call,
                                                  LinesOf(run[p].old)).content)
            /\ file' # file
                   => \/ run[p].pc = "loaded" /\ run'[p].pc = "written"
                      \/ run[p].pc = "idle" /\ run'[p].pc = "idle" ]_vars

\* a second call has written what it built from a document that the user
\* saved after the first call, not from the lines the first call loaded
C24_Witness ==
    /\ Len(run) = 1
    /\ run[1].pc = "written"
    /\ run[1].edited
    /\ last.op # "none"
    /\ LinesOf(run[1].old) # LinesOf(before)
    /\ file = Snapshot(Compute(run[1].call, LinesOf(run[1].old)).content)
    /\ file # Snapshot(Compute(run[1].call, LinesOf(before)).content)

\* the number of blocks of a document that list alias
Listing(f, alias) ==
    Len(SelectSeq(ContentsOf(f), LAMBDA c : Lists(c, alias)))

\* the last line of the document is blank and has no newline
EndsWithOpenBlankLine(f) ==
    LET lines == LinesOf(f)
    IN  /\ lines # <<>>
        /\ strip(lines[Len(lines)]) = <<>>
        /\ lines[Len(lines)][Len(lines[Len(lines)])] # NL

\* the first block of the document that lists the alias of the last
\* create_or_update is managed and is the canonical block of the record
FirstListingIsCanonical ==
    LET c == ContentsOf(file)
        t == FirstListing(c, last.alias, 1)
    IN  t # 0 /\ c[t].managed /\ c[t].text = Canonical

C26_ReadersNeverWrite ==
    last.op \in {"get", "list"}
    => /\ file = before
       /\ ~before.exists => ~file.exists

\* a read of a missing file in a missing directory, both still missing
C26_Witness ==
    /\ last.op = "get"
    /\ ~before.exists
    /\ ~file.exists
    /\ ~dir

\* name is listed by a block of the document other than block t
ListedElsewhere(f, name, t) ==
    \E k \in 1..Len(ContentsOf(f)) : k # t /\ Lists(ContentsOf(f)[k], name)

(***************************************************************************)
(* C27: when the first block listing the record's alias is a multi-name    *)
(* block (`Host a b`), create_or_update for alias a replaces the whole     *)
(* block by a single-name `Host a` block, so every other name of that      *)
(* block (b) loses its block: afterwards read(b) is absent and b is not in *)
(* list_managed_aliases unless another block lists it.                     *)
(***************************************************************************)
C27_OtherNamesLoseTheirBlock ==
    last.op = "update"
    => LET old == ContentsOf(before)
           t == FirstListing(old, last.alias, 1)
       IN  (t # 0 /\ Len(old[t].hosts) >= 2)
           => /\ ContentsOf(file)[t].hosts = <<last.alias>>
              /\ ContentsOf(file)[t].text = Canonical
              /\ \A name \in set(old[t].hosts) \ {last.alias} :
                     ~ListedElsewhere(before, name, t)
                         => /\ get_host_config(file, name)
                                  = [found |-> None, err |-> "none"]
                            /\ name \notin set(list_managed_hosts(file))
                            /\ ~ListedElsewhere(file, name, 0)

\* create_or_update(a) has replaced a managed block `Host a b`, the only
\* block that listed b: b was in the listing before and is not any more
C27_Witness ==
    /\ last.op = "update"
    /\ last.alias = AliasA
    /\ FirstListing(ContentsOf(before), AliasA, 1) # 0
    /\ AliasB \in set(list_managed_hosts(before))
    /\ Listing(before, AliasB) = 1
    /\ AliasB \notin set(list_managed_hosts(file))
    /\ get_host_config(file, AliasB).found = None

(***************************************************************************)
(* C28: for a document in which no block lists alias, create_or_update of  *)
(* a record with that alias followed by remove(alias) restores the         *)
(* original line sequence, except for at most one added blank separator    *)
(* line left at the end of the document.                                   *)
(***************************************************************************)
C28_UpdateThenRemoveRestores ==
    [][ ( /\ last.op = "update"
          /\ Listing(before, last.alias) = 0
          /\ last'.op = "remove"
          /\ last'.alias = last.alias )
        => LET old == ChompAll(LinesOf(before))
               new == ChompAll(LinesOf(file'))
           IN  \/ new = old
               \/ new = Append(old, <<>>) ]_vars

(***************************************************************************)
(* C29: remove and prune are idempotent: immediately repeating             *)
(* remove(alias) returns false and repeating prune(validAliases) with the  *)
(* same set returns 0, and the second call leaves the document produced by *)
(* the first call unchanged (deleting ranges never turns a retained block  *)
(* into a newly deletable one).                                            *)
(***************************************************************************)
C29_RemoveAndPruneIdempotent ==
    /\ last.op = "remove"
       => remove_host_config(file, last.alias) = [file |-> file, ret |-> FALSE]
    /\ last.op = "prune"
       => prune_managed_blocks(file, last.valid) = [file |-> file, ret |-> 0]

\* a remove has deleted a managed block of the alias and kept an unmanaged
\* block that lists the same alias
C29_Witness ==
    /\ last.op = "remove"
    /\ last.removed
    /\ file # before
    /\ Listing(file, last.alias) >= 1

(***************************************************************************)
(* The legacy module-level engine (src/rp/ssh_config.py) on the same       *)
(* document file: parse_ssh_blocks, remove_ssh_host_block and              *)
(* prune_rp_managed_blocks.                                                *)
(***************************************************************************)
\* load_ssh_config_lines
load_ssh_config_lines(f) ==
    IF f.exists THEN readlines(f.data) ELSE <<>>

\* write_ssh_config_lines: the file the write leaves
write_ssh_config_lines(lines) ==
    [exists |-> TRUE, data |-> Join(lines)]

RECURSIVE NextHost(_, _)
\* while i < len(lines) and not re.match(r"^\s*Host\s+", lines[i]): i += 1
NextHost(lines, i) ==
    IF i < Len(lines) /\ ~IsHostStart(lines[i + 1])
    THEN NextHost(lines, i + 1) ELSE i

RECURSIVE MarkerIn(_, _, _)
\* for j in range(start + 1, end): the first j whose line, lstripped, starts
\* with MARKER_PREFIX; -1 when the loop ends without a break
MarkerIn(lines, j, end) ==
    IF j >= end THEN -1
    ELSE IF startswith(lstrip(lines[j + 1]), MARKER_PREFIX) THEN j
    ELSE MarkerIn(lines, j + 1, end)

RECURSIVE BlocksFrom(_, _, _)
\* the outer while loop of parse_ssh_blocks, from position i
BlocksFrom(lines, i, blocks) ==
    IF i >= Len(lines) THEN blocks
    ELSE LET m == HostMatch(lines[i + 1])
         IN  IF m.matched
             THEN LET start == i
                      end == NextHost(lines, i + 1)
                      host_names == split(strip(m.group1))
                      marker_index == MarkerIn(lines, start + 1, end)
                  IN  BlocksFrom(lines, end, Append(blocks,
                          [start |-> start,
                           end |-> end,
                           hosts |-> host_names,
                           managed |-> marker_index # -1,
                           marker_index |-> marker_index]))
             ELSE BlocksFrom(lines, i + 1, blocks)

\* parse_ssh_blocks
parse_ssh_blocks(lines) == BlocksFrom(lines, 0, <<>>)

RECURSIVE SkipRanges(_, _, _, _)
\* for start, end in to_delete_ranges: new_lines.extend(lines[cur:start]);
\* cur = end; then new_lines.extend(lines[cur:])
SkipRanges(lines, to_delete_ranges, cur, new_lines) ==
    IF to_delete_ranges = <<>>
    THEN new_lines \o SubSeq(lines, cur + 1, Len(lines))
    ELSE SkipRanges(lines, Tail(to_delete_ranges),
                    Head(to_delete_ranges)[2],
                    new_lines \o SubSeq(lines, cur + 1,
                                        Head(to_delete_ranges)[1]))

\* to_delete_ranges.append((blk["start"], blk["end"])) for each chosen block
RangesOf(chosen) ==
    [k \in 1..Len(chosen) |-> <<chosen[k].start, chosen[k].end>>]

\* remove_ssh_host_block, were the test of blk["managed"] left out
remove_ssh_host_block_AnyBlock(f, alias) ==
    LET lines == load_ssh_config_lines(f)
        blocks == parse_ssh_blocks(lines)
        to_delete_ranges ==
            RangesOf(SelectSeq(blocks,
                LAMBDA blk : Contains(blk.hosts, alias)))
    IN  IF lines = <<>> THEN [file |-> f, ret |-> 0]
        ELSE IF to_delete_ranges = <<>> THEN [file |-> f, ret |-> 0]
        ELSE [file |-> write_ssh_config_lines(
                          SkipRanges(lines, to_delete_ranges, 0, <<>>)),
              ret |-> Len(to_delete_ranges)]

\* remove_ssh_host_block: the file it leaves and the count it returns
remove_ssh_host_block(f, alias) ==
    LET lines == load_ssh_config_lines(f)
        blocks == parse_ssh_blocks(lines)
        to_delete_ranges ==
            RangesOf(SelectSeq(blocks,
                LAMBDA blk : blk.managed /\ Contains(blk.hosts, alias)))
    IN  IF lines = <<>> THEN [file |-> f, ret |-> 0]
        ELSE IF to_delete_ranges = <<>> THEN [file |-> f, ret |-> 0]
        ELSE [file |-> write_ssh_config_lines(
                          SkipRanges(lines, to_delete_ranges, 0, <<>>)),
              ret |-> Len(to_delete_ranges)]

\* prune_rp_managed_blocks: the file it leaves and the count it returns
prune_rp_managed_blocks(f, valid_aliases) ==
    LET lines == load_ssh_config_lines(f)
        blocks == parse_ssh_blocks(lines)
        to_delete_ranges ==
            RangesOf(SelectSeq(blocks,
                LAMBDA blk :
                    /\ blk.managed
                    /\ ~ \E k \in 1..Len(blk.hosts) :
                             blk.hosts[k] \in valid_aliases))
    IN  IF lines = <<>> THEN [file |-> f, ret |-> 0]
        ELSE IF to_delete_ranges = <<>> THEN [file |-> f, ret |-> 0]
        ELSE [file |-> write_ssh_config_lines(
                          SkipRanges(lines, to_delete_ranges, 0, <<>>)),
              ret |-> Len(to_delete_ranges)]

LegacyParse ==
    /\ last' = [NoCall EXCEPT
                   !.op = "parse_ssh_blocks",
                   !.blocks = parse_ssh_blocks(load_ssh_config_lines(file))]
    /\ before' = file
    /\ file' = file
    /\ Returned

LegacyRemove(alias) ==
    LET r == remove_ssh_host_block(file, alias)
    IN  /\ file' = r.file
        /\ before' = file
        /\ last' = [NoCall EXCEPT !.op = "remove_ssh_host_block",
                                  !.alias = alias, !.count = r.ret]
        /\ Returned

LegacyPrune(valid_aliases) ==
    LET r == prune_rp_managed_blocks(file, valid_aliases)
    IN  /\ file' = r.file
        /\ before' = file
        /\ last' = [NoCall EXCEPT !.op = "prune_rp_managed_blocks",
                                  !.valid = valid_aliases, !.count = r.ret]
        /\ Returned

InitLegacy ==
    /\ file \in ParseFiles
    /\ before = file
    /\ last = NoCall
    /\ InitDisk

NextLegacy ==
    \/ LegacyParse
    \/ \E alias \in Aliases : LegacyRemove(alias)
    \/ \E valid_aliases \in SUBSET Aliases : LegacyPrune(valid_aliases)

SpecLegacy == InitLegacy /\ [][NextLegacy]_vars

(***************************************************************************)
(* C30: the legacy module-level engine and SSHManager agree: for every     *)
(* line sequence parse_ssh_blocks and SSHManager._parse_ssh_blocks return  *)
(* the same block descriptors, and for every document and argument         *)
(* remove_ssh_host_block / prune_rp_managed_blocks write the same document *)
(* as remove_host_config / prune_managed_blocks, with remove_host_config   *)
(* returning true exactly when remove_ssh_host_block returns a count       *)
(* greater than 0.                                                         *)
(***************************************************************************)
C30_LegacyEngineAgrees ==
    /\ last.op = "parse_ssh_blocks"
       => last.blocks = _parse_ssh_blocks(_load_ssh_config_lines(before))
    /\ last.op = "remove_ssh_host_block"
       => LET r == remove_host_config(before, last.alias)
          IN  /\ file = r.file
              /\ r.ret <=> last.count > 0
    /\ last.op = "prune_rp_managed_blocks"
       => file = prune_managed_blocks(before, last.valid).file

\* remove_ssh_host_block has deleted a managed block of the alias from a
\* document that keeps another block
C30_Witness ==
    /\ last.op = "remove_ssh_host_block"
    /\ last.count > 0
    /\ file # before
    /\ _parse_ssh_blocks(_load_ssh_config_lines(file)) # <<>>
    /\ remove_host_config(before, last.alias).ret

====
